---- MODULE Spec2Model ----
(***************************************************************************)
(* Model of the qemail worker (src/index.ts): the inbound-email handler    *)
(* and the MIME decoding functions it calls.                               *)
(*                                                                         *)
(* Strings are sequences of UTF-16 code units (naturals).  JavaScript      *)
(* indices are 0-based; the helpers below keep the code's 0-based offsets  *)
(* and -1 for "not found".  `undefined` is the value Undefined.            *)
(***************************************************************************)
EXTENDS Integers, Sequences, FiniteSets, TLC

VARIABLES pc, env, message, payload, res, forwardTarget, log, settled, call, ret

vars == <<pc, env, message, payload, res, forwardTarget, log, settled, call, ret>>

(***************************************************************************)
(* JavaScript values and string primitives                                 *)
(***************************************************************************)
\* A call that may throw yields [threw |-> TRUE] or [threw |-> FALSE, v |-> value].
Returned(v) == [threw |-> FALSE, v |-> v]
Thrown == [threw |-> TRUE, v |-> <<>>]

Min(S) == CHOOSE x \in S : \A y \in S : x <= y

\* String.prototype.indexOf(pat): 0-based offset of the first occurrence, or -1.
indexOf(s, pat) ==
  LET I == { i \in 0..(Len(s) - Len(pat)) : SubSeq(s, i + 1, i + Len(pat)) = pat }
  IN IF I = {} THEN 0 - 1 ELSE Min(I)

\* String.prototype.slice(from) and slice(from, to) for 0 <= from <= to.
slice(s, from) == SubSeq(s, from + 1, Len(s))
slice2(s, from, to) == SubSeq(s, from + 1, to)

startsWith(s, pre) == Len(s) >= Len(pre) /\ SubSeq(s, 1, Len(pre)) = pre

\* pat occurs in s at 0-based offset i.
occursAt(s, i, pat) == i + Len(pat) <= Len(s) /\ SubSeq(s, i + 1, i + Len(pat)) = pat

\* ECMAScript WhiteSpace + LineTerminator: what \s matches and trim() removes.
IsWhiteSpace(c) ==
  c \in {9, 10, 11, 12, 13, 32, 160, 5760, 8232, 8233, 8239, 8287, 12288, 65279}
  \/ c \in 8192..8202

\* ECMAScript LineTerminator: what "." does not match and what "^" (flag m) follows.
IsLineTerminator(c) == c \in {10, 13, 8232, 8233}

lowerChar(c) ==
  IF c \in 65..90 \/ (c \in 192..222 /\ c # 215) THEN c + 32 ELSE c

toLowerCase(s) == [i \in 1..Len(s) |-> lowerChar(s[i])]

\* The lower-case word occurs in s at 0-based offset i, whatever the case (flag i).
occursAtIgnoringCase(s, i, word) ==
  i + Len(word) <= Len(s) /\ toLowerCase(SubSeq(s, i + 1, i + Len(word))) = word

trim(s) ==
  LET K == { i \in 1..Len(s) : ~IsWhiteSpace(s[i]) }
  IN IF K = {} THEN <<>> ELSE SubSeq(s, Min(K), CHOOSE x \in K : \A y \in K : y <= x)

RECURSIVE Concat(_)
Concat(ss) == IF ss = <<>> THEN <<>> ELSE Head(ss) \o Concat(Tail(ss))

(***************************************************************************)
(* Envelope split of buildPayload                                          *)
(***************************************************************************)
CRLFCRLF == <<13, 10, 13, 10>>
LFLF == <<10, 10>>

\* A slip in the break selection: the CRLF blank line wins whenever one exists.
rawBodyOfCrlfFirst(raw) ==
  LET crlfIdx == indexOf(raw, CRLFCRLF)
      lfIdx == indexOf(raw, LFLF)
      breakAt == IF crlfIdx # -1 THEN crlfIdx ELSE lfIdx
  IN IF breakAt # -1
     THEN slice(raw, breakAt + (IF crlfIdx = breakAt THEN 4 ELSE 2))
     ELSE raw

rawBodyOf(raw) ==
  LET crlfIdx == indexOf(raw, CRLFCRLF)
      lfIdx == indexOf(raw, LFLF)
      breakAt == IF crlfIdx # -1 /\ (lfIdx = -1 \/ crlfIdx < lfIdx) THEN crlfIdx ELSE lfIdx
  IN IF breakAt # -1
     THEN slice(raw, breakAt + (IF crlfIdx = breakAt THEN 4 ELSE 2))
     ELSE raw

(***************************************************************************)
(* Header normalizer of buildPayload                                       *)
(*                                                                         *)
(* The header object is the literal {}: a property lookup that misses the  *)
(* own properties falls through to Object.prototype.  A JavaScript value   *)
(* is a record tagged by t: "undefined", "str", "arr" or "fn".             *)
(***************************************************************************)
JsUndefined == [t |-> "undefined"]
JsStr(s) == [t |-> "str", v |-> s]
JsArr(xs) == [t |-> "arr", v |-> xs]
JsFn == [t |-> "fn"]

\* "constructor"
ConstructorKey == <<99, 111, 110, 115, 116, 114, 117, 99, 116, 111, 114>>

\* headers[k] on an object created by {}: own property first, then the
\* prototype chain (Object.prototype.constructor is the function Object).
\* Of the names the model draws, only "constructor" is inherited.
GetProp(headers, k) ==
  IF k \in DOMAIN headers THEN headers[k]
  ELSE IF k = ConstructorKey THEN JsFn
  ELSE JsUndefined

\* headers[k] = v creates or overwrites the own property k.
SetProp(headers, k, v) ==
  [x \in (DOMAIN headers) \cup {k} |-> IF x = k THEN v ELSE headers[x]]

\* One iteration of the for-of loop over message.headers.
headerStep(headers, key, value) ==
  LET k == toLowerCase(key)
      existing == GetProp(headers, k)
  IN IF existing = JsUndefined THEN SetProp(headers, k, JsStr(value))
     ELSE IF existing.t = "arr" THEN SetProp(headers, k, JsArr(Append(existing.v, JsStr(value))))
     ELSE SetProp(headers, k, JsArr(<<existing, JsStr(value)>>))

RECURSIVE headerLoop(_, _)
headerLoop(headers, pairs) ==
  IF pairs = <<>> THEN headers
  ELSE headerLoop(headerStep(headers, pairs[1][1], pairs[1][2]), Tail(pairs))

EmptyObject == [x \in {} |-> JsUndefined]

normalizeHeaders(pairs) == headerLoop(EmptyObject, pairs)

\* Headers.get(name): the values of every header of that name (compared
\* case-insensitively) joined by ", ", or null when there is none.
RECURSIVE joinValues(_, _)
joinValues(pairs, name) ==
  IF pairs = <<>> THEN <<>>
  ELSE IF toLowerCase(pairs[1][1]) = name
       THEN <<pairs[1][2]>> \o joinValues(Tail(pairs), name)
       ELSE joinValues(Tail(pairs), name)

RECURSIVE joinComma(_)
joinComma(vs) ==
  IF Len(vs) = 1 THEN vs[1] ELSE vs[1] \o <<44, 32>> \o joinComma(Tail(vs))

\* message.headers.get(name) ?? ""
headersGetOrEmpty(pairs, name) ==
  LET vs == joinValues(pairs, name) IN IF vs = <<>> THEN <<>> ELSE joinComma(vs)

(***************************************************************************)
(* Transfer decoding: decodePart, decodeQP, decodeBase64Safe               *)
(***************************************************************************)
IsHexDigit(c) == c \in 48..57 \/ c \in 65..70 \/ c \in 97..102

hexValue(c) == IF c \in 48..57 THEN c - 48 ELSE IF c \in 65..70 THEN c - 55 ELSE c - 87

\* A global regex replace whose matches cannot overlap is computed position
\* by position: a character a match removes becomes Dropped, and the
\* Dropped positions are then filtered out.
Dropped == 0 - 1
Kept(c) == c # Dropped

\* The character at 1-based position i, or Dropped outside the string.
charAt(s, i) == IF i \in 1..Len(s) THEN s[i] ELSE Dropped

\* /=\r?\n/ matches at position i.
softBreakAt(s, i) ==
  charAt(s, i) = 61
  /\ (charAt(s, i + 1) = 10 \/ (charAt(s, i + 1) = 13 /\ charAt(s, i + 2) = 10))

\* s.replace(/=\r?\n/g, "")
removeSoftBreaks(s) ==
  SelectSeq([i \in 1..Len(s) |->
               IF \/ softBreakAt(s, i)
                  \/ softBreakAt(s, i - 1)
                  \/ (softBreakAt(s, i - 2) /\ s[i - 1] = 13)
               THEN Dropped ELSE s[i]], Kept)

\* /=([0-9A-Fa-f]{2})/ matches at position i.
hexEscapeAt(s, i) ==
  charAt(s, i) = 61 /\ IsHexDigit(charAt(s, i + 1)) /\ IsHexDigit(charAt(s, i + 2))

\* s.replace(/=([0-9A-Fa-f]{2})/g, (_, h) => String.fromCharCode(parseInt(h, 16)))
replaceHexEscapes(s) ==
  SelectSeq([i \in 1..Len(s) |->
               IF hexEscapeAt(s, i) THEN 16 * hexValue(s[i + 1]) + hexValue(s[i + 2])
               ELSE IF hexEscapeAt(s, i - 1) \/ hexEscapeAt(s, i - 2) THEN Dropped
               ELSE s[i]], Kept)

decodeQP(s) == replaceHexEscapes(removeSoftBreaks(s))

\* body.replace(/\r?\n/g, "")
stripLineBreaks(s) ==
  SelectSeq([i \in 1..Len(s) |->
               IF s[i] = 10 \/ (s[i] = 13 /\ charAt(s, i + 1) = 10) THEN Dropped ELSE s[i]],
            Kept)

IsBase64Char(c) == c \in 65..90 \/ c \in 97..122 \/ c \in 48..57 \/ c = 43 \/ c = 47

\* /^[A-Za-z0-9+/]+=*$/.test(s)
looksBase64(s) ==
  /\ s # <<>>
  /\ IsBase64Char(s[1])
  /\ \A i \in 1..Len(s) : IsBase64Char(s[i]) \/ s[i] = 61
  /\ \A i \in 1..(Len(s) - 1) : s[i] = 61 => s[i + 1] = 61

base64Value(c) ==
  IF c \in 65..90 THEN c - 65
  ELSE IF c \in 97..122 THEN c - 71
  ELSE IF c \in 48..57 THEN c + 4
  ELSE IF c = 43 THEN 62 ELSE 63

\* The bytes of the base64 digits d (no padding, Len(d) % 4 # 1): byte j of
\* group g is cut from digits 4g+1..4g+4; the bits left over after the last
\* whole byte are discarded.
base64Bytes(d) ==
  [j \in 1..((Len(d) * 6) \div 8) |->
     LET g == 4 * ((j - 1) \div 3)
         r == (j - 1) % 3
     IN IF r = 0 THEN base64Value(d[g + 1]) * 4 + (base64Value(d[g + 2]) \div 16)
        ELSE IF r = 1 THEN (base64Value(d[g + 2]) % 16) * 16 + (base64Value(d[g + 3]) \div 4)
        ELSE (base64Value(d[g + 3]) % 4) * 64 + base64Value(d[g + 4])]

IsAsciiWhitespace(c) == c \in {9, 10, 12, 13, 32}
NotAsciiWhitespace(c) == ~IsAsciiWhitespace(c)
NotWhiteSpace(c) == ~IsWhiteSpace(c)

\* atob(data): the forgiving-base64 decode of the HTML standard.
atob(data) ==
  LET d0 == SelectSeq(data, NotAsciiWhitespace)
      n0 == Len(d0)
      d1 == IF n0 % 4 = 0 /\ n0 >= 1 /\ d0[n0] = 61
            THEN IF n0 >= 2 /\ d0[n0 - 1] = 61 THEN SubSeq(d0, 1, n0 - 2) ELSE SubSeq(d0, 1, n0 - 1)
            ELSE d0
  IN IF Len(d1) % 4 = 1 \/ \E i \in 1..Len(d1) : ~IsBase64Char(d1[i])
     THEN Thrown
     ELSE Returned(base64Bytes(d1))

IsCont(b) == b \in 128..191

\* The length of the UTF-8 sequence a lead byte announces (0: not a lead byte).
utf8Len(b1) ==
  IF b1 < 128 THEN 1
  ELSE IF b1 \in 194..223 THEN 2
  ELSE IF b1 \in 224..239 THEN 3
  ELSE IF b1 \in 240..244 THEN 4
  ELSE 0

\* A well-formed UTF-8 sequence starts at position i of b: no overlong form,
\* no surrogate, nothing above U+10FFFF.
utf8SequenceAt(b, i) ==
  LET n == utf8Len(b[i])
  IN /\ n > 0
     /\ i + n - 1 <= Len(b)
     /\ \A k \in (i + 1)..(i + n - 1) : IsCont(b[k])
     /\ (b[i] = 224 => b[i + 1] >= 160)
     /\ (b[i] = 237 => b[i + 1] <= 159)
     /\ (b[i] = 240 => b[i + 1] >= 144)
     /\ (b[i] = 244 => b[i + 1] <= 143)

\* The continuation byte at position i belongs to the sequence of a lead byte
\* at most three positions before it.
utf8Covered(b, i) ==
  \E j \in 1..(i - 1) :
    /\ i - j <= 3
    /\ utf8Len(b[j]) > i - j
    /\ \A k \in (j + 1)..i : IsCont(b[k])

utf8CodePoint(b, i) ==
  LET n == utf8Len(b[i])
  IN IF n = 1 THEN b[i]
     ELSE IF n = 2 THEN (b[i] - 192) * 64 + (b[i + 1] - 128)
     ELSE IF n = 3 THEN (b[i] - 224) * 4096 + (b[i + 1] - 128) * 64 + (b[i + 2] - 128)
     ELSE (b[i] - 240) * 262144 + (b[i + 1] - 128) * 4096 + (b[i + 2] - 128) * 64
          + (b[i + 3] - 128)

\* decodeURIComponent of "%xx" for every byte: strict UTF-8 decoding to UTF-16
\* code units; a URIError on any ill-formed sequence.  The code unit of a
\* sequence is written at its lead byte, the low surrogate of a four-byte
\* sequence at its second byte.
utf8Decode(b) ==
  IF \E i \in 1..Len(b) : IF IsCont(b[i]) THEN ~utf8Covered(b, i) ELSE ~utf8SequenceAt(b, i)
  THEN Thrown
  ELSE Returned(SelectSeq(
         [i \in 1..Len(b) |->
            IF ~IsCont(b[i])
            THEN LET cp == utf8CodePoint(b, i)
                 IN IF cp < 65536 THEN cp ELSE 55296 + ((cp - 65536) \div 1024)
            ELSE IF i >= 2 /\ utf8Len(b[i - 1]) = 4
                 THEN 56320 + ((utf8CodePoint(b, i - 1) - 65536) % 1024)
            ELSE Dropped], Kept))

replaceChar(s, from, to) == [i \in 1..Len(s) |-> IF s[i] = from THEN to ELSE s[i]]

decodeBase64Safe(s) ==
  LET clean == replaceChar(replaceChar(SelectSeq(s, NotWhiteSpace), 45, 43), 95, 47)
      binary == atob(clean)
  IN IF binary.threw THEN Thrown
     ELSE LET u == utf8Decode(binary.v)
          IN IF u.threw THEN Returned(binary.v) ELSE u

Base64MinLen == 20

\* An off-by-one in the length test: a body of exactly Base64MinLen
\* characters is decoded as well.
decodePartFromMinLen(body, ct) ==
  LET stripped == stripLineBreaks(body)
  IN IF Len(stripped) >= Base64MinLen /\ looksBase64(stripped)
     THEN LET b64 == decodeBase64Safe(stripped)
          IN IF b64.threw THEN Returned(decodeQP(body)) ELSE b64
     ELSE Returned(decodeQP(body))

\* decodePart without its try/catch: a throw of decodeBase64Safe propagates.
decodePartUncaught(body, ct) ==
  LET stripped == stripLineBreaks(body)
  IN IF Len(stripped) > Base64MinLen /\ looksBase64(stripped)
     THEN decodeBase64Safe(stripped)
     ELSE Returned(decodeQP(body))

\* The try/catch around decodeBase64Safe: a throw falls through to decodeQP,
\* so decodePart itself always returns.
decodePart(body, ct) ==
  LET stripped == stripLineBreaks(body)
  IN IF Len(stripped) > Base64MinLen /\ looksBase64(stripped)
     THEN LET b64 == decodeBase64Safe(stripped)
          IN IF b64.threw THEN Returned(decodeQP(body)) ELSE b64
     ELSE Returned(decodeQP(body))

(***************************************************************************)
(* Content dispatch and multipart recursion                                *)
(***************************************************************************)
\* An optional string field of Parts: absent (undefined) or a string.
Absent == [has |-> FALSE, v |-> <<>>]
Some(s) == [has |-> TRUE, v |-> s]
Truthy(o) == o.has /\ o.v # <<>>

Parts(text, html) == [threw |-> FALSE, text |-> text, html |-> html]
PartsThrown == [threw |-> TRUE, text |-> Absent, html |-> Absent]

\* "multipart/", "text/html", "boundary", "content-type", "--"
MultipartPrefix == <<109, 117, 108, 116, 105, 112, 97, 114, 116, 47>>
TextHtmlPrefix == <<116, 101, 120, 116, 47, 104, 116, 109, 108>>
BoundaryWord == <<98, 111, 117, 110, 100, 97, 114, 121>>
ContentTypeName == <<99, 111, 110, 116, 101, 110, 116, 45, 116, 121, 112, 101>>
DashDash == <<45, 45>>

\* The 0-based offset of the first character at or after i that is not
\* whitespace (Len(s) when there is none): where a greedy \s* stops.
skipWhiteSpace(s, i) ==
  Min({ k \in i..Len(s) : k = Len(s) \/ ~IsWhiteSpace(s[k + 1]) })

\* [^";\s]
IsBoundaryChar(c) == c # 34 /\ c # 59 /\ ~IsWhiteSpace(c)

IsSpaceOrTab(c) == c = 32 \/ c = 9

\* The 0-based offset just past the run, from offset i on, of boundary
\* characters, of characters that end no line, and of spaces and tabs.
boundaryRunEnd(s, i) ==
  Min({ k \in i..Len(s) : k = Len(s) \/ ~IsBoundaryChar(s[k + 1]) })

lineEnd(s, i) ==
  Min({ k \in i..Len(s) : k = Len(s) \/ IsLineTerminator(s[k + 1]) })

spaceTabRunEnd(s, i) ==
  Min({ k \in i..Len(s) : k = Len(s) \/ ~IsSpaceOrTab(s[k + 1]) })

\* Where /boundary\s*=\s*"?([^";\s]+)"?/i matches when tried at offset i: the
\* offset of the capture, or -1.
boundaryCaptureAt(ct, i) ==
  IF ~occursAtIgnoringCase(ct, i, BoundaryWord) THEN -1
  ELSE LET j == skipWhiteSpace(ct, i + Len(BoundaryWord))
       IN IF ~(j < Len(ct) /\ ct[j + 1] = 61) THEN -1
          ELSE LET k == skipWhiteSpace(ct, j + 1)
                   q == IF k < Len(ct) /\ ct[k + 1] = 34 THEN k + 1 ELSE k
               IN IF q < Len(ct) /\ IsBoundaryChar(ct[q + 1]) THEN q ELSE -1

\* ct.match(...)?.[1]: found is FALSE for undefined.
parseBoundary(ct) ==
  LET M == { i \in 0..(Len(ct) - 1) : boundaryCaptureAt(ct, i) # -1 }
  IN IF M = {} THEN [found |-> FALSE, v |-> <<>>]
     ELSE LET q == boundaryCaptureAt(ct, Min(M))
          IN [found |-> TRUE, v |-> slice2(ct, q, boundaryRunEnd(ct, q))]

\* What /\r?\n<delimiter>/ consumes at offset i (0 when it does not match).
\* escapeRegExp makes every character of the delimiter match itself.
delimiterMatchLen(s, i, delimiter) ==
  IF occursAt(s, i, <<13, 10>> \o delimiter) THEN 2 + Len(delimiter)
  ELSE IF occursAt(s, i, <<10>> \o delimiter) THEN 1 + Len(delimiter)
  ELSE 0

\* body.split(new RegExp(`\\r?\\n${escapeRegExp(delimiter)}`))
RECURSIVE splitOnDelimiter(_, _)
splitOnDelimiter(s, delimiter) ==
  LET M == { i \in 0..(Len(s) - 1) : delimiterMatchLen(s, i, delimiter) > 0 }
  IN IF M = {} THEN <<s>>
     ELSE LET i == Min(M)
          IN <<slice2(s, 0, i)>>
             \o splitOnDelimiter(slice(s, i + delimiterMatchLen(s, i, delimiter)), delimiter)

\* m[1].replace(/\r?\n[ \t]+/g, " ")
RECURSIVE unfold(_)
unfold(s) ==
  IF s = <<>> THEN <<>>
  ELSE LET nl == IF s[1] = 13 /\ Len(s) >= 2 /\ s[2] = 10 THEN 2
                 ELSE IF s[1] = 10 THEN 1 ELSE 0
           e == spaceTabRunEnd(s, nl)
       IN IF nl > 0 /\ e > nl THEN <<32>> \o unfold(slice(s, e))
          ELSE <<s[1]>> \o unfold(Tail(s))

\* Where new RegExp(`^${name}\\s*:\\s*(.+)`, "im") matches when tried at offset
\* p: the capture m[1] as [found, v].  "^" (flag m) holds at offset 0 and after
\* a line terminator; "." matches no line terminator, so (.+) ends at the end
\* of its line; \s* gives characters back until (.+) has one to match.
headerCaptureAt(block, p, name) ==
  IF ~(p = 0 \/ IsLineTerminator(block[p]))
     \/ ~occursAtIgnoringCase(block, p, name)
  THEN [found |-> FALSE, v |-> <<>>]
  ELSE LET j == skipWhiteSpace(block, p + Len(name))
       IN IF ~(j < Len(block) /\ block[j + 1] = 58) THEN [found |-> FALSE, v |-> <<>>]
          ELSE LET e == skipWhiteSpace(block, j + 1)
                   K == { k \in (j + 1)..e : k < Len(block) /\ ~IsLineTerminator(block[k + 1]) }
               IN IF K = {} THEN [found |-> FALSE, v |-> <<>>]
                  ELSE LET k == CHOOSE x \in K : \A y \in K : y <= x
                       IN [found |-> TRUE,
                           v |-> slice2(block, k, lineEnd(block, k))]

extractHeaderValue(block, name) ==
  LET M == { p \in 0..(Len(block) - 1) : headerCaptureAt(block, p, name).found }
  IN IF M = {} THEN <<>>
     ELSE trim(unfold(headerCaptureAt(block, Min(M), name).v))

\* rawPart.replace(/^--\r?\n?$/, "").trim()
trimmedPart(rawPart) ==
  IF rawPart \in {DashDash, DashDash \o <<13>>, DashDash \o <<10>>, DashDash \o <<13, 10>>}
  THEN <<>>
  ELSE trim(rawPart)

\* The blank line of a sub-part: 0-based offset, or -1.
partBreakAt(rawPart) ==
  LET crlfBreak == indexOf(rawPart, CRLFCRLF)
      lfBreak == indexOf(rawPart, LFLF)
  IN IF crlfBreak # -1 /\ (lfBreak = -1 \/ crlfBreak < lfBreak) THEN crlfBreak ELSE lfBreak

partHeaders(rawPart) == slice2(rawPart, 0, partBreakAt(rawPart))

partBody(rawPart) ==
  slice(rawPart, partBreakAt(rawPart)
                 + (IF indexOf(rawPart, CRLFCRLF) = partBreakAt(rawPart) THEN 4 ELSE 2))

partCT(rawPart) == extractHeaderValue(partHeaders(rawPart), ContentTypeName)

\* Whether the loop body reaches the recursive call for this fragment.
partIsProcessed(rawPart) ==
  /\ trimmedPart(rawPart) # <<>>
  /\ trimmedPart(rawPart) # DashDash
  /\ partBreakAt(rawPart) # -1

\* text = (text ?? "") + result.text
accumulate(acc, r) == IF Truthy(r) THEN Some(acc.v \o r.v) ELSE acc

RECURSIVE extractParts(_, _)
RECURSIVE parseMultipartLoop(_, _, _)

\* The for-of loop of parseMultipart over the fragments left, with the
\* accumulators text and html.
parseMultipartLoop(parts, text, html) ==
  IF parts = <<>> THEN Parts(text, html)
  ELSE LET rawPart == Head(parts)
       IN IF ~partIsProcessed(rawPart) THEN parseMultipartLoop(Tail(parts), text, html)
          ELSE LET result == extractParts(partBody(rawPart), partCT(rawPart))
               IN IF result.threw THEN PartsThrown
                  ELSE parseMultipartLoop(Tail(parts),
                                          accumulate(text, result.text),
                                          accumulate(html, result.html))

parseMultipart(body, boundary) ==
  parseMultipartLoop(splitOnDelimiter(body, DashDash \o boundary), Absent, Absent)

\* extractParts without the early "return {}": a multipart type with no
\* boundary falls through to the text branches.
extractPartsFallingThrough(body, contentType) ==
  LET ct == toLowerCase(contentType)
      boundary == parseBoundary(contentType)
  IN IF startsWith(ct, MultipartPrefix) /\ boundary.found
     THEN parseMultipart(body, boundary.v)
     ELSE LET d == decodePart(body, contentType)
          IN IF d.threw THEN PartsThrown
             ELSE IF startsWith(ct, TextHtmlPrefix) THEN Parts(Absent, Some(d.v))
             ELSE Parts(Some(d.v), Absent)

extractParts(body, contentType) ==
  LET ct == toLowerCase(contentType)
  IN IF startsWith(ct, MultipartPrefix)
     THEN LET boundary == parseBoundary(contentType)
          IN IF boundary.found THEN parseMultipart(body, boundary.v)
             ELSE Parts(Absent, Absent)
     ELSE LET d == decodePart(body, contentType)
          IN IF d.threw THEN PartsThrown
             ELSE IF startsWith(ct, TextHtmlPrefix) THEN Parts(Absent, Some(d.v))
             ELSE Parts(Some(d.v), Absent)

\* The content types parseMultipart passes to its recursive extractParts
\* calls, in order, when extractParts(body, contentType) is a multipart call.
recursiveCallTypes(body, contentType) ==
  LET boundary == parseBoundary(contentType)
  IN IF startsWith(toLowerCase(contentType), MultipartPrefix) /\ boundary.found
     THEN LET processed == SelectSeq(splitOnDelimiter(body, DashDash \o boundary.v),
                                     partIsProcessed)
          IN [i \in 1..Len(processed) |-> partCT(processed[i])]
     ELSE <<>>

(***************************************************************************)
(* buildPayload                                                            *)
(***************************************************************************)
\* "subject", "message-id", "(No Subject)", "@qemail.worker>"
SubjectName == <<115, 117, 98, 106, 101, 99, 116>>
MessageIdName == <<109, 101, 115, 115, 97, 103, 101, 45, 105, 100>>
NoSubject == <<40, 78, 111, 32, 83, 117, 98, 106, 101, 99, 116, 41>>
WorkerIdSuffix == <<64, 113, 101, 109, 97, 105, 108, 46, 119, 111, 114, 107, 101, 114, 62>>

\* now is what Date.now() prints, rnd what Math.random().toString(36).slice(2)
\* gives, at what new Date().toISOString() gives.
buildPayload(msg, now, rnd, at) ==
  LET headers == normalizeHeaders(msg.headers)
      subjectRaw == trim(headersGetOrEmpty(msg.headers, SubjectName))
      idRaw == trim(headersGetOrEmpty(msg.headers, MessageIdName))
      rawBody == rawBodyOf(msg.raw)
      contentType == headersGetOrEmpty(msg.headers, ContentTypeName)
      parts == extractParts(rawBody, contentType)
  IN [ threw |-> parts.threw,
       from |-> msg.from,
       to |-> msg.to,
       subject |-> IF subjectRaw # <<>> THEN subjectRaw ELSE NoSubject,
       text |-> parts.text,
       html |-> parts.html,
       headers |-> headers,
       messageId |-> IF idRaw # <<>> THEN idRaw
                     ELSE <<60>> \o now \o <<46>> \o rnd \o WorkerIdSuffix,
       receivedAt |-> at ]

(***************************************************************************)
(* The email handler: one step per await                                   *)
(***************************************************************************)
NoPayload == [threw |-> FALSE]
NoResponse == [ok |-> FALSE, received |-> FALSE]
JsNull == [t |-> "null"]
NoCall == [fn |-> "none"]
Pending == [done |-> FALSE]

PostRequest(e) == [op |-> "POST", url |-> e.API_BASE \o "/webhook/incoming-email"]
LookupRequest(e, to) == [op |-> "GET", url |-> e.API_BASE \o "/webhook/forward-lookup?to=" \o to]
ForwardCall(target) == [op |-> "forward", url |-> target]

\* What the values drawn for the clock and the random source print as.
Stamps == {<<49>>, <<50>>}
Randoms == {<<107, 51>>}

\* The catch of the outer try: the error is logged and the promise resolves.
OuterCatch == pc' = "done" /\ settled' = "resolved"

\* return inside the try, or falling off its end: the promise resolves.
Return == pc' = "done" /\ settled' = "resolved"

\* if (!env.API_BASE || !env.WEBHOOK_SECRET) return;
CheckConfig ==
  /\ pc = "start"
  /\ IF env.API_BASE = "" \/ env.WEBHOOK_SECRET = ""
     THEN Return
     ELSE pc' = "buildPayload" /\ settled' = settled
  /\ UNCHANGED <<env, message, payload, res, forwardTarget, log, call, ret>>

\* const payload = await buildPayload(message);
BuildPayload ==
  /\ pc = "buildPayload"
  /\ \E now \in Stamps, rnd \in Randoms, at \in Stamps :
       LET p == buildPayload(message, now, rnd, at)
       IN IF p.threw
          THEN OuterCatch /\ payload' = payload
          ELSE pc' = "post" /\ payload' = p /\ settled' = settled
  /\ UNCHANGED <<env, message, res, forwardTarget, log, call, ret>>

\* readStream rejects (the raw stream errors): buildPayload rejects.
ReadStreamFails ==
  /\ pc = "buildPayload"
  /\ OuterCatch
  /\ UNCHANGED <<env, message, payload, res, forwardTarget, log, call, ret>>

\* fetch(`${env.API_BASE}/webhook/incoming-email`, {method: "POST", ...}) is issued.
PostWebhook ==
  /\ pc = "post"
  /\ log' = Append(log, PostRequest(env))
  /\ pc' = "awaitPost"
  /\ UNCHANGED <<env, message, payload, res, forwardTarget, settled, call, ret>>

\* The POST settles with a response, ok or not.
PostResponds ==
  /\ pc = "awaitPost"
  /\ \E ok \in BOOLEAN : res' = [ok |-> ok, received |-> TRUE]
  /\ pc' = "checkResponse"
  /\ UNCHANGED <<env, message, payload, forwardTarget, log, settled, call, ret>>

\* The POST rejects (network error).
PostFails ==
  /\ pc = "awaitPost"
  /\ OuterCatch
  /\ UNCHANGED <<env, message, payload, res, forwardTarget, log, call, ret>>

\* Not returning on a response that is not ok.
CheckResponseIgnoringStatus ==
  /\ pc = "checkResponse"
  /\ pc' = "lookup" /\ settled' = settled
  /\ UNCHANGED <<env, message, payload, res, forwardTarget, log, call, ret>>

\* if (!res.ok) { ...; return; }   res.text() may reject: .catch gives "(unreadable)".
CheckResponse ==
  /\ pc = "checkResponse"
  /\ IF ~res.ok THEN Return ELSE pc' = "lookup" /\ settled' = settled
  /\ UNCHANGED <<env, message, payload, res, forwardTarget, log, call, ret>>

\* fetchForwardTarget: the GET of /webhook/forward-lookup is issued.
FetchForwardTarget ==
  /\ pc = "lookup"
  /\ log' = Append(log, LookupRequest(env, message.to))
  /\ pc' = "awaitLookup"
  /\ UNCHANGED <<env, message, payload, res, forwardTarget, settled, call, ret>>

\* What fetchForwardTarget returns for each way the lookup can end: the fetch
\* rejects, the status is not ok, res.json() rejects, the JSON is null (reading
\* forward_to throws), forward_to is missing or null, or it is a string.
LookupOutcomes ==
  { "fetchRejects", "notOk", "jsonRejects", "dataNull", "fieldMissing", "fieldNull",
    "emptyString", "address" }

forwardTargetOf(outcome) ==
  IF outcome = "emptyString" THEN JsStr("")
  ELSE IF outcome = "address" THEN JsStr("fwd@example.com")
  ELSE JsNull

ForwardLookupReturns ==
  /\ pc = "awaitLookup"
  /\ \E outcome \in LookupOutcomes : forwardTarget' = forwardTargetOf(outcome)
  /\ pc' = "checkTarget"
  /\ UNCHANGED <<env, message, payload, res, log, settled, call, ret>>

\* if (forwardTarget) { ... message.forward(forwardTarget) is called
Forward ==
  /\ pc = "checkTarget"
  /\ IF forwardTarget.t = "str" /\ forwardTarget.v # ""
     THEN log' = Append(log, ForwardCall(forwardTarget.v)) /\ pc' = "awaitForward"
          /\ settled' = settled
     ELSE Return /\ log' = log
  /\ UNCHANGED <<env, message, payload, res, forwardTarget, call, ret>>

\* message.forward settles: resolved, or rejected and caught by the inner catch.
ForwardSettles ==
  /\ pc = "awaitForward"
  /\ Return
  /\ UNCHANGED <<env, message, payload, res, forwardTarget, log, call, ret>>

(***************************************************************************)
(* The messages and environments the handler is run on                     *)
(***************************************************************************)
\* "--XYZ", CRLF, "Content-Type: ", "text/plain", "text/html"
CRLF == <<13, 10>>
ContentTypeField == <<67, 111, 110, 116, 101, 110, 116, 45, 84, 121, 112, 101, 58, 32>>
TextPlain == <<116, 101, 120, 116, 47, 112, 108, 97, 105, 110>>
TextHtml == <<116, 101, 120, 116, 47, 104, 116, 109, 108>>
BoundaryXYZ == <<88, 89, 90>>

\* "multipart/alternative; boundary=XYZ"
AlternativeXYZ ==
  <<109, 117, 108, 116, 105, 112, 97, 114, 116, 47, 97, 108, 116, 101, 114, 110, 97, 116,
    105, 118, 101, 59, 32, 98, 111, 117, 110, 100, 97, 114, 121, 61, 88, 89, 90>>

\* The quoted-printable text "Hi=2C there" and the base64 of "<p>Hi there</p>".
HiThereQP == <<72, 105, 61, 50, 67, 32, 116, 104, 101, 114, 101>>
HiThereHtmlBase64 ==
  <<80, 72, 65, 43, 83, 71, 107, 103, 100, 71, 104, 108, 99, 109, 85, 56, 76, 51, 65, 43>>

\* The body of the multipart scenario: two sub-parts between --XYZ delimiters.
ScenarioBody ==
  DashDash \o BoundaryXYZ \o CRLF
  \o ContentTypeField \o TextPlain \o CRLF \o CRLF \o HiThereQP \o CRLF
  \o DashDash \o BoundaryXYZ \o CRLF
  \o ContentTypeField \o TextHtml \o CRLF \o CRLF \o HiThereHtmlBase64 \o CRLF
  \o DashDash \o BoundaryXYZ \o DashDash \o CRLF

\* "Subject", "Content-Type", "Received", "Message-ID", and some values.
Messages ==
  { [ from |-> "a@example.com", to |-> "inbox@example.com",
      headers |-> << <<<<83, 117, 98, 106, 101, 99, 116>>, <<72, 105>>>>,
                     <<<<67, 111, 110, 116, 101, 110, 116, 45, 84, 121, 112, 101>>,
                       AlternativeXYZ>> >>,
      raw |-> <<83, 117, 98, 106, 101, 99, 116, 58, 32, 72, 105>> \o CRLF
              \o ContentTypeField \o AlternativeXYZ \o CRLF \o CRLF \o ScenarioBody ],
    [ from |-> "b@example.com", to |-> "inbox@example.com",
      headers |-> << <<<<82, 101, 99, 101, 105, 118, 101, 100>>, <<102, 114, 111, 109, 32, 97>>>>,
                     <<<<82, 101, 99, 101, 105, 118, 101, 100>>, <<102, 114, 111, 109, 32, 98>>>>,
                     <<<<77, 101, 115, 115, 97, 103, 101, 45, 73, 68>>, <<60, 49, 64, 120, 62>>>> >>,
      raw |-> <<82, 101, 99, 101, 105, 118, 101, 100, 58, 32, 97, 10, 10>>
              \o <<72, 101, 108, 108, 111>> ],
    [ from |-> "c@example.com", to |-> "other@example.com",
      headers |-> <<>>,
      raw |-> <<72, 101, 108, 108, 111>> ] }

Environments == [API_BASE : {"", "https://api.example.com"}, WEBHOOK_SECRET : {"", "s3cret"}]

Init ==
  /\ pc = "start"
  /\ env \in Environments
  /\ message \in Messages
  /\ payload = NoPayload
  /\ res = NoResponse
  /\ forwardTarget = JsNull
  /\ log = <<>>
  /\ settled = "pending"
  /\ call = NoCall
  /\ ret = Pending

Next ==
  \/ CheckConfig
  \/ BuildPayload
  \/ ReadStreamFails
  \/ PostWebhook
  \/ PostResponds
  \/ PostFails
  \/ CheckResponse
  \/ FetchForwardTarget
  \/ ForwardLookupReturns
  \/ Forward
  \/ ForwardSettles

Spec == Init /\ [][Next]_vars

(***************************************************************************)
(* C10: the handler forwards at most once, and only after an ok webhook    *)
(* response and a non-empty forward-lookup result                          *)
(***************************************************************************)
Configured == env.API_BASE # "" /\ env.WEBHOOK_SECRET # ""
LogIndexes(op) == { i \in DOMAIN log : log[i].op = op }

\* C10: in every state of every run of the handler, message.forward has been
\* called at most once; a forward call comes after the webhook POST got an ok
\* response and after the forward-lookup returned the non-empty target it is
\* called with; a forward-lookup request is only made when API_BASE and
\* WEBHOOK_SECRET are configured and the POST got an ok response (so none is
\* made, and nothing is forwarded, when the POST failed or was not ok); the
\* handler's promise is never rejected, it is resolved exactly when the handler
\* is done, and the handler is otherwise at one of its await points or checks,
\* each of which has a step.
C10_ForwardOnlyAfterOkWebhook ==
  /\ Cardinality(LogIndexes("forward")) <= 1
  /\ \A i \in LogIndexes("forward") :
       /\ res.received /\ res.ok
       /\ \E j \in LogIndexes("GET") : j < i
       /\ log[i].url # ""
       /\ forwardTarget = JsStr(log[i].url)
  /\ \A j \in LogIndexes("GET") :
       /\ res.received /\ res.ok
       /\ \E k \in LogIndexes("POST") : k < j
  /\ (log # <<>> => Configured)
  /\ settled # "rejected"
  /\ (pc = "done" <=> settled = "resolved")
  /\ pc \in {"start", "buildPayload", "post", "awaitPost", "checkResponse", "lookup",
            "awaitLookup", "checkTarget", "awaitForward", "done"}

\* A run that forwarded the message and completed.
C10_Witness ==
  /\ pc = "done"
  /\ Cardinality(LogIndexes("forward")) = 1
  /\ settled = "resolved"

(***************************************************************************)
(* Function applications: call is the function applied and its arguments,  *)
(* ret what it returned.  The handler's variables stay idle.               *)
(***************************************************************************)
HandlerIdle ==
  /\ pc = "idle"
  /\ env = [API_BASE |-> "", WEBHOOK_SECRET |-> ""]
  /\ message = [from |-> "", to |-> "", headers |-> <<>>, raw |-> <<>>]
  /\ payload = NoPayload
  /\ res = NoResponse
  /\ forwardTarget = JsNull
  /\ log = <<>>
  /\ settled = "pending"

HandlerVars == <<pc, env, message, payload, res, forwardTarget, log, settled>>

\* The strings over alphabet A of length at most n.
StringsUpTo(A, n) == UNION { [1..k -> A] : k \in 0..n }

(***************************************************************************)
(* C5: the envelope split                                                  *)
(***************************************************************************)
MaxRawLen == 7

\* CR, LF and "a"
RawAlphabet == {13, 10, 97}

InitSplit ==
  /\ HandlerIdle
  /\ call \in { [fn |-> "rawBodyOf", raw |-> r] : r \in StringsUpTo(RawAlphabet, MaxRawLen) }
  /\ ret = Pending

SplitEnvelope ==
  /\ call.fn = "rawBodyOf"
  /\ ~ret.done
  /\ ret' = [done |-> TRUE, v |-> rawBodyOf(call.raw)]
  /\ UNCHANGED <<HandlerVars, call>>

SpecSplit == InitSplit /\ [][SplitEnvelope]_vars

\* The 0-based offsets at which pat occurs in s.
Occurrences(s, pat) ==
  { i \in 0..(Len(s) - Len(pat)) : SubSeq(s, i + 1, i + Len(pat)) = pat }

\* C5: the body is the text after the earliest occurrence of "\r\n\r\n" or
\* "\n\n": it starts 4 characters after the match offset when the earliest
\* match is "\r\n\r\n" and 2 after it when it is "\n\n"; with no occurrence of
\* either, the body is the whole block.
C5_EnvelopeSplit ==
  ret.done =>
    LET raw == call.raw
        P4 == Occurrences(raw, <<13, 10, 13, 10>>)
        P2 == Occurrences(raw, <<10, 10>>)
    IN IF P4 \cup P2 = {} THEN ret.v = raw
       ELSE LET m == Min(P4 \cup P2)
            IN ret.v = SubSeq(raw, m + (IF m \in P4 THEN 4 ELSE 2) + 1, Len(raw))

\* A block holding both blank lines, "\n\n" first, has been split.
C5_Witness ==
  /\ ret.done
  /\ Occurrences(call.raw, <<13, 10, 13, 10>>) # {}
  /\ Occurrences(call.raw, <<10, 10>>) # {}
  /\ Min(Occurrences(call.raw, <<10, 10>>)) < Min(Occurrences(call.raw, <<13, 10, 13, 10>>))
  /\ ret.v # <<>>

(***************************************************************************)
(* C9: the header normalizer                                               *)
(***************************************************************************)
MaxHeaders == 3

\* "X", "x", "To", "Constructor"
HeaderNames == {<<88>>, <<120>>, <<84, 111>>, <<67, 111, 110, 115, 116, 114, 117, 99, 116, 111, 114>>}
\* "a", "b"
HeaderValues == {<<97>>, <<98>>}

InitHeaders ==
  /\ HandlerIdle
  /\ call \in { [fn |-> "normalizeHeaders", pairs |-> ps] :
                  ps \in StringsUpTo(HeaderNames \X HeaderValues, MaxHeaders) }
  /\ ret = Pending

NormalizeHeaders ==
  /\ call.fn = "normalizeHeaders"
  /\ ~ret.done
  /\ ret' = [done |-> TRUE, v |-> normalizeHeaders(call.pairs)]
  /\ UNCHANGED <<HandlerVars, call>>

SpecHeaders == InitHeaders /\ [][NormalizeHeaders]_vars

\* The values, in input order, of the pairs whose name lower-cases to k.
ValuesOf(pairs, k) ==
  LET Named(p) == toLowerCase(p[1]) = k
      hits == SelectSeq(pairs, Named)
  IN [i \in 1..Len(hits) |-> hits[i][2]]

\* C9: the header map is keyed by the lower-cased names of the input pairs; a
\* name occurring once maps to its scalar value, a name occurring two or more
\* times to the list of its values in input order.
C9_HeaderMap ==
  ret.done =>
    /\ DOMAIN ret.v = { toLowerCase(call.pairs[i][1]) : i \in 1..Len(call.pairs) }
    /\ \A k \in DOMAIN ret.v :
         LET vs == ValuesOf(call.pairs, k)
         IN IF Len(vs) = 1 THEN ret.v[k] = JsStr(vs[1])
            ELSE ret.v[k] = JsArr([i \in 1..Len(vs) |-> JsStr(vs[i])])

(***************************************************************************)
(* C2, C8: decodePart on base64 and quoted-printable bodies                *)
(***************************************************************************)
MaxWords == 6

\* The UTF-8 bytes of a string of code points below U+10000.
utf8EncodeChar(c) ==
  IF c < 128 THEN <<c>>
  ELSE IF c < 2048 THEN <<192 + (c \div 64), 128 + (c % 64)>>
  ELSE <<224 + (c \div 4096), 128 + ((c \div 64) % 64), 128 + (c % 64)>>

utf8Encode(p) == Concat([i \in 1..Len(p) |-> utf8EncodeChar(p[i])])

base64Digit(v) ==
  IF v < 26 THEN 65 + v ELSE IF v < 52 THEN 71 + v ELSE IF v < 62 THEN v - 4
  ELSE IF v = 62 THEN 43 ELSE 47

\* The base64 text of a byte string whose length is a multiple of 3 (so that
\* it needs no "=" padding).
base64Encode(b) ==
  [j \in 1..((Len(b) \div 3) * 4) |->
     LET g == 3 * ((j - 1) \div 4)
         r == (j - 1) % 4
     IN base64Digit(IF r = 0 THEN b[g + 1] \div 4
                    ELSE IF r = 1 THEN (b[g + 1] % 4) * 16 + (b[g + 2] \div 16)
                    ELSE IF r = 2 THEN (b[g + 2] % 16) * 4 + (b[g + 3] \div 64)
                    ELSE b[g + 3] % 64)]

\* Plaintext words of three UTF-8 bytes each: "abc", "\u00E9!", "\u20AC".
Base64Words == {<<97, 98, 99>>, <<233, 33>>, <<8364>>}

\* A line break after the fourth character and one at the end.
wrapLines(s, eol) ==
  IF Len(s) >= 4 THEN SubSeq(s, 1, 4) \o eol \o SubSeq(s, 5, Len(s)) \o eol ELSE s \o eol

\* A base64 body: the plaintext, the base64 text of its UTF-8 bytes with the
\* last cut characters removed, and the line break it is wrapped with.
\* n bounds the number of words.
Base64Calls(n) ==
  { [ fn |-> "decodePart", enc |-> "base64", plain |-> Concat(ws), cut |-> cut,
      digits |-> SubSeq(base64Encode(utf8Encode(Concat(ws))), 1, 4 * Len(ws) - cut),
      body |-> wrapLines(SubSeq(base64Encode(utf8Encode(Concat(ws))), 1, 4 * Len(ws) - cut), eol) ] :
      ws \in StringsUpTo(Base64Words, n) \ {<<>>}, cut \in 0..2, eol \in {<<>>, <<13, 10>>, <<10>>} }

hexDigit(v) == IF v < 10 THEN 48 + v ELSE 55 + v

\* Quoted-printable: "=" and every character outside the printable ASCII
\* range become =XX; a hard line break (CR LF) is kept.
qpEncodeChar(c) ==
  IF c = 61 \/ ((c < 32 \/ c > 126) /\ c # 13 /\ c # 10)
  THEN <<61, hexDigit(c \div 16), hexDigit(c % 16)>>
  ELSE <<c>>

\* The encoding of p, with a soft line break ("=" CR LF) after the first
\* encoded character when soft is set.
qpEncode(p, soft) ==
  IF p = <<>> THEN <<>>
  ELSE qpEncodeChar(p[1]) \o (IF soft THEN <<61, 13, 10>> ELSE <<>>)
       \o Concat([i \in 1..(Len(p) - 1) |-> qpEncodeChar(p[i + 1])])

\* Plaintext words of single-byte characters: "abcd", "=", "\u00E9".
QPWords == {<<97, 98, 99, 100>>, <<61>>, <<233>>}

QPCalls(n) ==
  { [ fn |-> "decodePart", enc |-> "qp", plain |-> Concat(ws), cut |-> 0,
      digits |-> <<>>, body |-> qpEncode(Concat(ws), soft) ] :
      ws \in StringsUpTo(QPWords, n), soft \in BOOLEAN }

InitDecode ==
  /\ HandlerIdle
  /\ call \in Base64Calls(MaxWords) \cup QPCalls(MaxWords)
  /\ ret = Pending

DecodePart ==
  /\ call.fn = "decodePart"
  /\ ~ret.done
  /\ LET d == decodePart(call.body, <<>>)
     IN ret' = [done |-> TRUE, threw |-> d.threw, v |-> d.v]
  /\ UNCHANGED <<HandlerVars, call>>

SpecDecode == InitDecode /\ [][DecodePart]_vars

\* C2: a body that, line breaks removed, is made of base64 alphabet characters
\* only is returned as it is, as literal text, when that has at most 20
\* characters; when it has more than 20 and is the base64 text of the UTF-8
\* bytes of a plaintext, decodePart returns exactly that plaintext.
C2_Base64Heuristic ==
  (ret.done /\ call.enc = "base64") =>
    /\ ~ret.threw
    /\ IF Len(call.digits) <= 20 THEN ret.v = call.body
       ELSE (call.cut = 0 => ret.v = call.plain)

\* A base64 body of more than 20 characters, wrapped over two lines, of a
\* plaintext with a non-ASCII character has been decoded to that plaintext.
C2_Witness ==
  /\ ret.done
  /\ call.enc = "base64"
  /\ call.cut = 0
  /\ Len(call.digits) > 20
  /\ call.body # call.digits
  /\ \E i \in 1..Len(call.plain) : call.plain[i] > 127
  /\ ret.v = call.plain

\* C8: decodePart of the quoted-printable encoding of a plaintext of
\* single-byte characters returns exactly that plaintext.
C8_QuotedPrintableRoundTrip ==
  (ret.done /\ call.enc = "qp") => (~ret.threw /\ ret.v = call.plain)

(***************************************************************************)
(* C1, C3, C4: extractParts on rendered multipart trees                    *)
(***************************************************************************)
MaxChildren == 2

\* "OUT", "IN", "multipart/mixed; boundary=OUT", "multipart/alternative;",
\* "boundary=IN"
BoundaryOut == <<79, 85, 84>>
BoundaryIn == <<73, 78>>
MixedOut ==
  <<109, 117, 108, 116, 105, 112, 97, 114, 116, 47, 109, 105, 120, 101, 100, 59, 32, 98,
    111, 117, 110, 100, 97, 114, 121, 61, 79, 85, 84>>
AlternativeType ==
  <<109, 117, 108, 116, 105, 112, 97, 114, 116, 47, 97, 108, 116, 101, 114, 110, 97, 116,
    105, 118, 101, 59>>
BoundaryInParam == <<98, 111, 117, 110, 100, 97, 114, 121, 61, 73, 78>>

LeafBodies == {HiThereQP, <<>>}
Leaves == [kind : {"leaf"}, type : {TextPlain, TextHtml}, body : LeafBodies]

SeqsFromTo(S, lo, hi) == UNION { [1..k -> S] : k \in lo..hi }

\* A multipart/alternative of at most n leaves, and a multipart/mixed of at
\* most n leaves and multipart/alternative parts.
Alternatives(n) == [kind : {"multipart"}, children : SeqsFromTo(Leaves, 1, n)]
MixedTrees(n) == SeqsFromTo(Leaves \cup Alternatives(n), 1, n)

\* The leaves of a list of parts, depth first.
leavesOf(children) ==
  Concat([i \in 1..Len(children) |->
            IF children[i].kind = "leaf" THEN <<children[i]>> ELSE children[i].children])

\* A multipart body: each part between "--" boundary lines, its Content-Type
\* header, a blank line and its body; a nested multipart/alternative gives
\* its boundary parameter on a continuation line when fold is set.
renderLeaves(children, boundary) ==
  Concat([i \in 1..Len(children) |->
            DashDash \o boundary \o CRLF \o ContentTypeField \o children[i].type
            \o CRLF \o CRLF \o children[i].body \o CRLF])
  \o DashDash \o boundary \o DashDash \o CRLF

renderParts(children, boundary, fold) ==
  Concat([i \in 1..Len(children) |->
            DashDash \o boundary \o CRLF \o ContentTypeField
            \o (IF children[i].kind = "leaf"
                THEN children[i].type \o CRLF \o CRLF \o children[i].body
                ELSE AlternativeType \o (IF fold THEN CRLF \o <<32>> ELSE <<32>>)
                     \o BoundaryInParam \o CRLF \o CRLF
                     \o renderLeaves(children[i].children, BoundaryIn))
            \o CRLF])
  \o DashDash \o boundary \o DashDash \o CRLF

\* The multipart scenario: a text/plain part "Hi=2C there" and a text/html part
\* holding the base64 text of "<p>Hi there</p>", boundary XYZ.
ScenarioParts ==
  << [kind |-> "leaf", type |-> TextPlain, body |-> HiThereQP],
     [kind |-> "leaf", type |-> TextHtml, body |-> HiThereHtmlBase64] >>

TreeCalls(n) ==
  { [ fn |-> "extractParts", parts |-> cs, fold |-> fold,
      body |-> renderParts(cs, BoundaryOut, fold), contentType |-> MixedOut ] :
      cs \in MixedTrees(n), fold \in BOOLEAN }
  \cup
  { [ fn |-> "extractParts", parts |-> ScenarioParts, fold |-> FALSE,
      body |-> renderParts(ScenarioParts, BoundaryXYZ, FALSE), contentType |-> AlternativeXYZ ] }

InitTree ==
  /\ HandlerIdle
  /\ call \in TreeCalls(MaxChildren)
  /\ ret = Pending

ExtractParts ==
  /\ call.fn = "extractParts"
  /\ ~ret.done
  /\ LET r == extractParts(call.body, call.contentType)
     IN ret' = [ done |-> TRUE, threw |-> r.threw, text |-> r.text, html |-> r.html,
                 partCTs |-> recursiveCallTypes(call.body, call.contentType) ]
  /\ UNCHANGED <<HandlerVars, call>>

SpecTree == InitTree /\ [][ExtractParts]_vars

\* C1: extractParts of the multipart/alternative scenario with boundary XYZ
\* returns text "Hi, there" and html "<p>Hi there</p>".
C1_MultipartScenario ==
  (ret.done /\ call.body = ScenarioBody /\ call.contentType = AlternativeXYZ) =>
    /\ ret.text = Some(<<72, 105, 44, 32, 116, 104, 101, 114, 101>>)
    /\ ret.html = Some(<<60, 112, 62, 72, 105, 32, 116, 104, 101, 114, 101, 60, 47, 112, 62>>)

\* C3: the content type extracted for a sub-part whose Content-Type header is
\* folded is the whole folded value, the line break and the whitespace after
\* it replaced by one space, so the recursive call gets the parameters of the
\* continuation line.
C3_FoldedContentType ==
  (ret.done /\ call.fold /\ call.contentType = MixedOut) =>
    /\ Len(ret.partCTs) = Len(call.parts)
    /\ \A i \in 1..Len(call.parts) :
         call.parts[i].kind = "multipart" =>
           ret.partCTs[i] = AlternativeType \o <<32>> \o BoundaryInParam

\* The decoded bodies, concatenated in order, of the leaves of one kind;
\* absent when they give nothing.
expectedOf(leaves) ==
  LET all == Concat([i \in 1..Len(leaves) |-> decodePart(leaves[i].body, leaves[i].type).v])
  IN IF all = <<>> THEN Absent ELSE Some(all)

IsHtmlLeaf(l) == l.type = TextHtml
IsTextLeaf(l) == l.type # TextHtml

\* C4: for a multipart tree, the text returned is the concatenation, depth
\* first, of the decoded bodies of the leaves that are not text/html, the html
\* that of the text/html leaves, and a kind no leaf contributes to is absent.
C4_NestedAccumulation ==
  ret.done =>
    /\ ret.text = expectedOf(SelectSeq(leavesOf(call.parts), IsTextLeaf))
    /\ ret.html = expectedOf(SelectSeq(leavesOf(call.parts), IsHtmlLeaf))

(***************************************************************************)
(* C6, C7: extractParts on malformed input                                 *)
(***************************************************************************)
MaxFragmentTokens == 3
MaxParameterTokens == 4

\* "b", "multipart/mixed; boundary=b", "multipart/mixed", "Hi", "<b>"
BoundaryB == <<98>>
MixedB == <<109, 117, 108, 116, 105, 112, 97, 114, 116, 47, 109, 105, 120, 101, 100, 59, 32, 98, 111, 117, 110, 100, 97, 114, 121, 61, 98>>
MixedNoBoundary == <<109, 117, 108, 116, 105, 112, 97, 114, 116, 47, 109, 105, 120, 101, 100>>
Hi == <<72, 105>>
BoldTag == <<60, 98, 62>>

\* 21 base64 digits: one more than a multiple of four, which atob rejects.
UndecodableBase64 == [i \in 1..21 |-> 65]

\* What malformed material is made of: a stray delimiter "\n--b", "--", a
\* blank line, a header name, a multipart type with no boundary, text/html,
\* and base64 that cannot be decoded.
FragmentTokens ==
  { <<10>> \o DashDash \o BoundaryB, DashDash, CRLFCRLF, ContentTypeField,
    MixedNoBoundary, TextHtml, UndecodableBase64 }

Fragments(n) == { Concat(ts) : ts \in StringsUpTo(FragmentTokens, n) }

\* A multipart body with boundary b: a text/plain part "Hi", the material m
\* as the part between two delimiters, and a text/html part "<b>".
withSiblings(m) ==
  DashDash \o BoundaryB \o CRLF \o ContentTypeField \o TextPlain \o CRLFCRLF \o Hi
  \o CRLF \o DashDash \o BoundaryB \o m
  \o CRLF \o DashDash \o BoundaryB \o CRLF \o ContentTypeField \o TextHtml \o CRLFCRLF \o BoldTag
  \o CRLF \o DashDash \o BoundaryB \o DashDash \o CRLF

\* "application/x-unknown"
UnknownType == <<97, 112, 112, 108, 105, 99, 97, 116, 105, 111, 110, 47, 120, 45, 117, 110, 107, 110, 111, 119, 110>>

\* "multipart/", "MultiPart/" and what the rest of a multipart content type
\* is made of: "mixed;", " ", "Boundary", "=", "\"", "b".
MultipartSpellings == { MultipartPrefix, <<77, 117, 108, 116, 105, 80, 97, 114, 116, 47>> }
ParameterTokens ==
  { <<109, 105, 120, 101, 100, 59>>, <<32>>, <<66, 111, 117, 110, 100, 97, 114, 121>>,
    <<61>>, <<34>>, BoundaryB }

MultipartTypes(n) ==
  { pre \o Concat(ts) :
      pre \in MultipartSpellings, ts \in StringsUpTo(ParameterTokens, n) }

\* nf bounds the tokens of a body, np those of a content type.
PartsCalls(nf, np) ==
  { [ fn |-> "extractParts", family |-> "siblings",
      body |-> withSiblings(m), contentType |-> MixedB ] : m \in Fragments(nf) }
  \cup
  { [ fn |-> "extractParts", family |-> "fragments", body |-> m, contentType |-> ct ] :
      m \in Fragments(nf), ct \in {<<>>, TextHtml, UnknownType, MixedB} }
  \cup
  { [ fn |-> "extractParts", family |-> "types", body |-> b, contentType |-> ct ] :
      b \in {withSiblings(<<>>), HiThereQP}, ct \in MultipartTypes(np) }

InitParts ==
  /\ HandlerIdle
  /\ call \in PartsCalls(MaxFragmentTokens, MaxParameterTokens)
  /\ ret = Pending

SpecParts == InitParts /\ [][ExtractParts]_vars

\* The fragments parseMultipart splits the body of the call into.
fragmentsOfCall == splitOnDelimiter(call.body, DashDash \o BoundaryB)

endsWith(s, suf) == Len(s) >= Len(suf) /\ slice(s, Len(s) - Len(suf)) = suf

\* C6: extractParts never throws and always returns a Parts value, for every
\* body and content type (malformed multipart structure, undecodable base64,
\* unknown content types); and a malformed part between two well-formed
\* sibling parts does not keep the siblings' content from being returned.
C6_NeverThrows ==
  ret.done =>
    /\ ~ret.threw
    /\ ret.text \in {Absent} \cup { Some(ret.text.v) }
    /\ ret.html \in {Absent} \cup { Some(ret.html.v) }
    /\ call.family = "siblings" =>
         /\ ret.text.has /\ startsWith(ret.text.v, Hi)
         /\ ret.html.has /\ endsWith(ret.html.v, BoldTag)

\* A malformed part (one with content and no blank line) lies between the
\* siblings, whose content is returned.
C6_Witness ==
  /\ ret.done /\ ~ret.threw
  /\ call.family = "siblings"
  /\ \E i \in 1..Len(fragmentsOfCall) :
       /\ trimmedPart(fragmentsOfCall[i]) \notin {<<>>, DashDash}
       /\ partBreakAt(fragmentsOfCall[i]) = 0 - 1
  /\ startsWith(ret.text.v, Hi)
  /\ endsWith(ret.html.v, BoldTag)

\* Whether ct carries a boundary parameter: the word "boundary" in any case,
\* "=" with optional whitespace on either side, an optional quote, and then
\* at least one character that is no quote, semicolon or whitespace.
HasBoundaryParameter(ct) ==
  \E i \in 0..(Len(ct) - 1) :
    /\ occursAtIgnoringCase(ct, i, BoundaryWord)
    /\ \E j \in (i + Len(BoundaryWord))..(Len(ct) - 1) :
         /\ \A k \in (i + Len(BoundaryWord) + 1)..j : IsWhiteSpace(ct[k])
         /\ ct[j + 1] = 61
         /\ \E q \in (j + 1)..(Len(ct) - 1) :
              /\ \A k \in (j + 2)..q : IsWhiteSpace(ct[k])
              /\ \/ IsBoundaryChar(ct[q + 1])
                 \/ ct[q + 1] = 34 /\ q + 1 < Len(ct) /\ IsBoundaryChar(ct[q + 2])

\* C7: for a content type that starts with multipart/ (in any case) and
\* carries no boundary parameter, extractParts returns, for every body, a
\* result whose text and html are both absent, and does not throw.
C7_MissingBoundary ==
  ( /\ ret.done
    /\ startsWith(toLowerCase(call.contentType), MultipartPrefix)
    /\ ~HasBoundaryParameter(call.contentType) ) =>
    /\ ~ret.threw
    /\ ret.text = Absent
    /\ ret.html = Absent

\* A multipart type that names "boundary" and still carries no boundary
\* parameter, on a body that has parts; nothing is returned.
C7_Witness ==
  /\ ret.done
  /\ call.family = "types"
  /\ call.body = withSiblings(<<>>)
  /\ \E i \in 0..(Len(call.contentType) - 1) :
       occursAtIgnoringCase(call.contentType, i, BoundaryWord)
  /\ ~HasBoundaryParameter(call.contentType)
  /\ ret.text = Absent /\ ret.html = Absent

====
